---- MODULE Spec2Model ----
(***************************************************************************)
(* The tool-use conversation loop of chat_with_stuff: the three variants   *)
(* of process_claude_conversation (flight, SQL, weather).  One behaviour   *)
(* is one run of process_claude_conversation.  The LLM and the data        *)
(* provider are the environment: their replies and outcomes are chosen     *)
(* nondeterministically; an action is the code that runs from one blocking *)
(* call to the next.                                                       *)
(***************************************************************************)
EXTENDS Integers, Sequences, FiniteSets, TLC

VARIABLES
    variant,          \* which main.py is running
    user_query,       \* the argument user_query
    pc,               \* position of the run
    message_history,  \* the local list message_history
    response,         \* the local response (first LLM reply)
    final_response,   \* the local final_response (latest second-round reply)
    idx,              \* index of the block of response.content being handled
    llm_calls,        \* history: the messages argument of each messages.create
    provider_calls,   \* history: each call of the data provider
    output,           \* what print() has written (SQL and weather variants)
    result,           \* how process_claude_conversation ended
    trace,            \* history: the steps in the order the code ran them
    \* one call of a data provider (get_aircraft_in_box, get_weather)
    prov_kind,        \* which provider is called
    prov_input,       \* its arguments
    prov_pc,          \* position of the call
    upstream,         \* what the upstream service answered
    net_calls,        \* history: number of httpx.get calls issued
    prov_result,      \* how the call ended
    \* a PostgresManager and its database
    db_pc,            \* "new" before __init__, then "ready" or "failed"
    connection,       \* the field _connection: index into db_conns, 0 for None
    schema_info,      \* the field schema_info
    db_conns,         \* every connection object psycopg2.connect has returned
    db_up,            \* the server accepts connections
    db_schema,        \* the schema the database has now
    db_hist,          \* history of the manager's calls
    \* the HTTP entrypoint and the interactive entrypoint
    api_pc,           \* position of query_claude
    request,          \* the POST request
    http_response,    \* the answer of query_claude
    api_log,          \* what app.logger.error has written
    main_pc,          \* position of main
    main_input,       \* what input() returned last
    main_runs,        \* history: queries main has handled to the end
    main_log,         \* what logger.error has written in main
    \* the tool-schema builders
    tool_in,          \* the schema metadata given to two calls of a builder
    tool_out          \* what the calls returned, in order

run_vars == <<variant, user_query, pc, message_history, response, final_response,
              idx, llm_calls, provider_calls, output, result, trace>>

prov_vars == <<prov_kind, prov_input, prov_pc, upstream, net_calls, prov_result>>

db_vars == <<db_pc, connection, schema_info, db_conns, db_up, db_schema, db_hist>>

api_vars == <<api_pc, request, http_response, api_log>>

main_vars == <<main_pc, main_input, main_runs, main_log>>

\* Everything that is not a local of process_claude_conversation.
tool_vars == <<tool_in, tool_out>>

ext_vars == <<prov_vars, db_vars, api_vars, main_vars, tool_vars>>

vars == <<run_vars, ext_vars>>

\* ---------------------------------------------------------------- bounds
\* Longest content list of an LLM reply.
MaxBlocks == 2

\* ---------------------------------------------------------------- values
Variants == {"flight", "sql", "weather"}

UserQueries == {"show me planes over Sofia", "What's the weather in Paris?"}

\* stop_reason values of the Messages API; the code tests only "tool_use".
StopReasons == {"end_turn", "max_tokens", "tool_use"}

\* Python's None, and the absence of a reply.
None == <<>>
NoReply == [stop_reason |-> "", content |-> <<>>]

\* Tool inputs the LLM may put into a tool_use block.
FlightInputs ==
    { [min_lat |-> 42, max_lat |-> 43, min_lon |-> 23, max_lon |-> 24],
      [min_lat |-> 43, max_lat |-> 42, min_lon |-> 23, max_lon |-> 24],
      [min_lat |-> 91, max_lat |-> 92, min_lon |-> 23, max_lon |-> 24] }

WeatherInputs == { [city |-> <<"P", "a", "r", "i", "s">>], [city |-> <<" ">>] }

SqlInputs == { [query |-> "SELECT 1"],
               [query |-> "SELECT 1 FROM nonexistent_table"] }

ToolInputs(v) ==
    IF v = "flight" THEN FlightInputs
    ELSE IF v = "weather" THEN WeatherInputs
    ELSE SqlInputs

\* What a successful provider call returns (opaque to the orchestrator).
ProviderData == {"records"}

\* ------------------------------------------------------------ LLM replies
\* The text of a text block and the id of a tool_use block are opaque to the
\* code, which only copies them: block i of the k-th reply carries <<k, i>>.
TextBlock(k, i) == [type |-> "text", text |-> <<k, i>>]

ToolUseBlock(k, i, inp) == [type |-> "tool_use", id |-> <<k, i>>, input |-> inp]

\* A content list: every position holds a text block or a tool_use block.
Contents(k, v) ==
    UNION { { [i \in 1..n |->
                 IF f[i] \in ToolInputs(v) THEN ToolUseBlock(k, i, f[i])
                 ELSE TextBlock(k, i)]
              : f \in [1..n -> {[text |-> TRUE]} \cup ToolInputs(v)] }
            : n \in 0..MaxBlocks }

Replies(k, v) ==
    { [stop_reason |-> s, content |-> c] : s \in StopReasons, c \in Contents(k, v) }

\* ---------------------------------------------------------- data provider
Whitespace == {" ", "\t"}

RECURSIVE Strip(_)
\* str.strip(): the string without leading and trailing whitespace.
Strip(s) ==
    IF s = <<>> THEN <<>>
    ELSE IF Head(s) \in Whitespace THEN Strip(Tail(s))
    ELSE IF s[Len(s)] \in Whitespace THEN Strip(SubSeq(s, 1, Len(s) - 1))
    ELSE s

\* A validation that checks the order of the latitudes only.
ValidBox_LatOrderOnly(inp) ==
    /\ -90 <= inp.min_lat /\ inp.min_lat <= 90
    /\ -90 <= inp.max_lat /\ inp.max_lat <= 90
    /\ -180 <= inp.min_lon /\ inp.min_lon <= 180
    /\ -180 <= inp.max_lon /\ inp.max_lon <= 180
    /\ ~(inp.min_lat > inp.max_lat)

\* The input validation of get_aircraft_in_box.
ValidBox(inp) ==
    /\ -90 <= inp.min_lat /\ inp.min_lat <= 90
    /\ -90 <= inp.max_lat /\ inp.max_lat <= 90
    /\ -180 <= inp.min_lon /\ inp.min_lon <= 180
    /\ -180 <= inp.max_lon /\ inp.max_lon <= 180
    /\ ~(inp.min_lat > inp.max_lat \/ inp.min_lon > inp.max_lon)

\* The input validation of WeatherService.get_weather.
ValidCity(inp) == Strip(inp.city) # <<>>

\* The exception class each main.py treats as the provider's own error.
ProviderError(v) ==
    IF v = "flight" THEN "OpenSkyAPIError"
    ELSE IF v = "weather" THEN "WeatherAPIError"
    ELSE "DatabaseError"

Returned(data) == [kind |-> "ok", data |-> data, exc |-> ""]
Raised(exc) == [kind |-> "raise", data |-> "", exc |-> exc]

\* What get_aircraft_in_box can do on an input: ValueError before the request
\* for an invalid box; otherwise the records, OpenSkyAPIError for a response
\* that does not parse, or the HTTP client's own error, which the handler for
\* requests' RequestException does not catch.
get_aircraft_in_box(inp) ==
    IF ~ValidBox(inp) THEN { Raised("ValueError") }
    ELSE { Returned(d) : d \in ProviderData }
         \cup { Raised("OpenSkyAPIError"), Raised("httpx.HTTPError") }

\* What WeatherService.get_weather can do on an input.
get_weather(inp) ==
    IF ~ValidCity(inp) THEN { Raised("ValueError") }
    ELSE { Returned(d) : d \in ProviderData }
         \cup { Raised("WeatherAPIError"), Raised("httpx.HTTPError") }

\* What PostgresManager.execute_query can do on an input: every psycopg2
\* error, of connecting or of the query, becomes DatabaseError.
execute_query(inp) ==
    IF inp.query = "SELECT 1 FROM nonexistent_table"
    THEN { Raised("DatabaseError") }
    ELSE { Returned(d) : d \in ProviderData } \cup { Raised("DatabaseError") }

\* Arguments with the two latitudes exchanged.
ProviderArguments_Swapped(v, inp) ==
    IF v = "flight"
    THEN [min_lat |-> inp.max_lat, max_lat |-> inp.min_lat,
          min_lon |-> inp.min_lon, max_lon |-> inp.max_lon]
    ELSE IF v = "weather" THEN [city |-> inp.city]
    ELSE [query |-> inp.query]

\* The arguments of the provider call, each read from content.input under
\* the name of the parameter it is bound to.
ProviderArguments(v, inp) ==
    IF v = "flight"
    THEN [min_lat |-> inp.min_lat, max_lat |-> inp.max_lat,
          min_lon |-> inp.min_lon, max_lon |-> inp.max_lon]
    ELSE IF v = "weather" THEN [city |-> inp.city]
    ELSE [query |-> inp.query]

ProviderOutcomes(v, inp) ==
    IF v = "flight" THEN get_aircraft_in_box(inp)
    ELSE IF v = "weather" THEN get_weather(inp)
    ELSE execute_query(inp)

Pending == [kind |-> "pending", data |-> "", exc |-> ""]
NoUpstream == [net |-> "none"]

\* str(e) of an exception, and str(...) of the formatted records.
StrOfError(exc) == <<"str", exc>>
StrOfData(data) == <<"str", "formatted", data>>

\* ----------------------------------------------------------- conversation
UserTurn(q) == [role |-> "user", content |-> q]

AssistantTurn(reply) == [role |-> "assistant", content |-> reply.content]

\* A turn that takes the place of the first one instead of going to the end.
AppendTurn_Prepend(history, turn) == <<turn>> \o history

\* message_history.append(turn)
AppendTurn(history, turn) == Append(history, turn)

\* The messages argument of client.messages.create: the list itself.
MessagesArgument_Stale(history) == SubSeq(history, 1, Len(history) - 1)

MessagesArgument(history) == history

\* A tool result that names the reply's first tool_use block, whichever block
\* was executed.
ToolResultTurn_FirstId(block, payload) ==
    LET S == { i \in DOMAIN response.content : response.content[i].type = "tool_use" }
        first == CHOOSE i \in S : \A j \in S : i <= j
    IN [role |-> "user",
        content |-> << [type |-> "tool_result",
                        tool_use_id |-> response.content[first].id,
                        content |-> payload] >>]

\* The user turn holding one tool result; only an error result has is_error.
ToolResultTurn(block, payload) ==
    [role |-> "user",
     content |-> << [type |-> "tool_result", tool_use_id |-> block.id,
                     content |-> payload] >>]

ToolErrorTurn(block, payload) ==
    [role |-> "user",
     content |-> << [type |-> "tool_result", tool_use_id |-> block.id,
                     content |-> payload, is_error |-> TRUE] >>]

\* The text blocks of a content list, in order.
Texts(content) ==
    LET RECURSIVE T(_)
        T(i) == IF i > Len(content) THEN <<>>
                ELSE IF content[i].type = "text" THEN <<content[i].text>> \o T(i + 1)
                ELSE T(i + 1)
    IN T(1)

HasText(content) == Texts(content) # <<>>

\* for c in content: if c.type == "text": return c.text  (else None)
FirstTextOrNone(content) ==
    IF HasText(content) THEN Head(Texts(content)) ELSE None

\* The index of the first tool_use block at or after position from, 0 if none:
\* where `for content in response.content` next enters its body.
NextToolUse(content, from) ==
    LET S == { i \in from..Len(content) : content[i].type = "tool_use" }
    IN IF S = {} THEN 0 ELSE CHOOSE i \in S : \A j \in S : i <= j

\* A dispatch decided by the presence of a tool_use block, not by stop_reason.
ToolUseRequested_AnyBlock(reply) ==
    \E i \in DOMAIN reply.content : reply.content[i].type = "tool_use"

\* if response.stop_reason == "tool_use":
ToolUseRequested(reply) == reply.stop_reason = "tool_use"

\* except WeatherAPIError / except DatabaseError around the provider call; the
\* flight variant has no handler.
Caught(v, exc) == v \in {"sql", "weather"} /\ exc = ProviderError(v)

Running == [kind |-> "running", value |-> None, exc |-> ""]
Return(val) == [kind |-> "return", value |-> val, exc |-> ""]
Raise(exc) == [kind |-> "raise", value |-> None, exc |-> exc]

\* A failed LLM call that is made again instead of leaving the function.
LLMErrorControl_Retry(at) == [pc |-> at, result |-> Running]

\* client.messages.create raises anthropic.APIError at position at: no handler
\* retries; the flight variant has none, the others log and re-raise.
LLMErrorControl(at) == [pc |-> "done", result |-> Raise("anthropic.APIError")]

\* The code after the loop over response.content: the flight variant returns
\* the first text of the first reply or falls off the end; the other two
\* variants return nothing.
AfterLoop(v, reply) ==
    IF v = "flight" THEN Return(FirstTextOrNone(reply.content)) ELSE Return(None)

\* A loop that asks the LLM again after every block.
Resume_Again(v, reply, i) == [pc |-> "llm2", idx |-> i, result |-> Running]

\* Control after the block at position i has been handled without a return:
\* the loop goes on to the next tool_use block, or ends.
Resume(v, reply, i) ==
    LET n == NextToolUse(reply.content, i + 1)
    IN IF n # 0 THEN [pc |-> "provider", idx |-> n, result |-> Running]
       ELSE [pc |-> "done", idx |-> 0, result |-> AfterLoop(v, reply)]

\* Control after the first reply has been appended.
Dispatch(v, reply) ==
    IF ToolUseRequested(reply) THEN Resume(v, reply, 0)
    ELSE [pc |-> "done", idx |-> 0, result |-> AfterLoop(v, reply)]

NoSchema == [tables |-> <<>>, relationships |-> <<>>]
NoDbCall == [op |-> "none"]

\* No PostgresManager exists.
DbIdle ==
    /\ db_pc = "idle"
    /\ connection = 0
    /\ schema_info = NoSchema
    /\ db_conns = <<>>
    /\ db_up = TRUE
    /\ db_schema = NoSchema
    /\ db_hist = [fetches |-> 0, built |-> NoSchema, tools |-> <<>>,
                  last |-> NoDbCall, ops |-> 0]

\* A parsed JSON value, as far as the handler looks at it: its type, the
\* keys of an object (the items of an array, the words of a string), the
\* value under "query" and the value of a number.
JNull == [type |-> "null", members |-> {}, query |-> "", num |-> 0]

\* A request body: absent, not parseable, or JSON text and its value.
EmptyBody == [kind |-> "empty", value |-> JNull]

NoRequest == [json_mimetype |-> FALSE, body |-> EmptyBody]
NoResponse == [status |-> 0, body |-> [error |-> "", message |-> "", response |-> None]]

\* No tool-schema builder has been called.
ToolsIdle ==
    /\ tool_in = [builder |-> "none", first |-> NoSchema, second |-> NoSchema]
    /\ tool_out = <<>>

\* No HTTP request is being served and no interactive loop is running.
EntryIdle ==
    /\ api_pc = "idle"
    /\ request = NoRequest
    /\ http_response = NoResponse
    /\ api_log = <<>>
    /\ main_pc = "idle"
    /\ main_input = ""
    /\ main_runs = 0
    /\ main_log = <<>>

\* No provider call is under way.
ProviderIdle ==
    /\ prov_kind = "none"
    /\ prov_input = [none |-> TRUE]
    /\ prov_pc = "idle"
    /\ upstream = NoUpstream
    /\ net_calls = 0
    /\ prov_result = Pending

Init ==
    /\ variant \in Variants
    /\ user_query \in UserQueries
    /\ pc = "llm1"
    /\ message_history = << UserTurn(user_query) >>
    /\ response = NoReply
    /\ final_response = NoReply
    /\ idx = 0
    /\ llm_calls = <<>>
    /\ provider_calls = <<>>
    /\ output = <<>>
    /\ result = Running
    /\ trace = <<>>
    /\ ProviderIdle
    /\ DbIdle
    /\ ToolsIdle
    /\ EntryIdle

\* The first client.messages.create raises: the error leaves the function.
FirstLLMCallFails ==
    /\ pc = "llm1"
    /\ llm_calls' = Append(llm_calls, MessagesArgument(message_history))
    /\ trace' = trace \o <<"llm_call", "llm_error">>
    /\ pc' = LLMErrorControl("llm1").pc
    /\ result' = LLMErrorControl("llm1").result
    /\ UNCHANGED <<variant, user_query, message_history, response,
                   final_response, idx, provider_calls, output>>
    /\ UNCHANGED ext_vars

\* The first client.messages.create returns: the reply is appended as the
\* assistant turn and the run goes on to the first tool_use block or ends.
FirstLLMCall ==
    /\ pc = "llm1"
    /\ \E reply \in Replies(Len(llm_calls) + 1, variant) :
         LET next == Dispatch(variant, reply)
         IN /\ llm_calls' = Append(llm_calls, MessagesArgument(message_history))
            /\ response' = reply
            /\ message_history' = AppendTurn(message_history, AssistantTurn(reply))
            /\ trace' = trace \o <<"llm_call", "append_assistant">>
            /\ pc' = next.pc
            /\ idx' = next.idx
            /\ result' = next.result
    /\ UNCHANGED <<variant, user_query, final_response, provider_calls, output>>
    /\ UNCHANGED ext_vars

\* The provider is called for the tool_use block at idx.  Its result is
\* appended as a tool result and the second-round LLM call is next; its own
\* error is appended as an error result in the SQL and weather variants, and
\* the loop goes on; any other exception leaves the function.
ProviderCall ==
    /\ pc = "provider"
    /\ LET block == response.content[idx]
           args == ProviderArguments(variant, block.input)
       IN \E out \in ProviderOutcomes(variant, args) :
            /\ provider_calls' = Append(provider_calls,
                   [id |-> block.id, input |-> args, outcome |-> out])
            /\ IF out.kind = "ok"
               THEN /\ message_history' = AppendTurn(message_history,
                           ToolResultTurn(block, StrOfData(out.data)))
                    /\ trace' = trace \o <<"provider_call", "append_tool_result">>
                    /\ pc' = "llm2"
                    /\ UNCHANGED <<idx, result>>
               ELSE IF Caught(variant, out.exc)
               THEN LET next == Resume(variant, response, idx)
                    IN /\ message_history' = AppendTurn(message_history,
                              ToolErrorTurn(block, StrOfError(out.exc)))
                       /\ trace' = trace \o <<"provider_call", "append_tool_result">>
                       /\ pc' = next.pc
                       /\ idx' = next.idx
                       /\ result' = next.result
               ELSE /\ trace' = Append(trace, "provider_call")
                    /\ pc' = "done"
                    /\ result' = Raise(out.exc)
                    /\ UNCHANGED <<message_history, idx>>
    /\ UNCHANGED <<variant, user_query, response, final_response, llm_calls, output>>
    /\ UNCHANGED ext_vars

\* The second-round client.messages.create raises.
FinalLLMCallFails ==
    /\ pc = "llm2"
    /\ llm_calls' = Append(llm_calls, MessagesArgument(message_history))
    /\ trace' = trace \o <<"llm_call", "llm_error">>
    /\ pc' = LLMErrorControl("llm2").pc
    /\ result' = LLMErrorControl("llm2").result
    /\ UNCHANGED <<variant, user_query, message_history, response,
                   final_response, idx, provider_calls, output>>
    /\ UNCHANGED ext_vars

\* The second-round client.messages.create returns.  The flight variant
\* returns the reply's first text block, and goes on with the loop when there
\* is none; the SQL and weather variants print every text block of the reply
\* and go on with the loop.
FinalLLMCall ==
    /\ pc = "llm2"
    /\ \E reply \in Replies(Len(llm_calls) + 1, variant) :
         LET next == Resume(variant, response, idx)
         IN /\ llm_calls' = Append(llm_calls, MessagesArgument(message_history))
            /\ final_response' = reply
            /\ trace' = Append(trace, "llm_call")
            /\ IF variant = "flight"
               THEN IF HasText(reply.content)
                    THEN /\ pc' = "done"
                         /\ result' = Return(FirstTextOrNone(reply.content))
                         /\ UNCHANGED <<idx, output>>
                    ELSE /\ pc' = next.pc
                         /\ idx' = next.idx
                         /\ result' = next.result
                         /\ UNCHANGED output
               ELSE /\ output' = output \o Texts(reply.content)
                    /\ pc' = next.pc
                    /\ idx' = next.idx
                    /\ result' = next.result
    /\ UNCHANGED <<variant, user_query, message_history, response, provider_calls>>
    /\ UNCHANGED ext_vars

Next ==
    \/ FirstLLMCallFails
    \/ FirstLLMCall
    \/ ProviderCall
    \/ FinalLLMCallFails
    \/ FinalLLMCall

Spec == Init /\ [][Next]_vars

\* Every LLM call and every provider call returns or raises, and the code
\* between two calls runs to the next one.
SpecLive == Spec /\ WF_vars(Next)

\* ============================================== one data-provider call
\* Longest list of state vectors in an OpenSky answer, longest city name.
MaxStates == 2
MaxCityLen == 2

\* No run of process_claude_conversation is under way.
RunIdle ==
    /\ variant = "none"
    /\ user_query = ""
    /\ pc = "idle"
    /\ message_history = <<>>
    /\ response = NoReply
    /\ final_response = NoReply
    /\ idx = 0
    /\ llm_calls = <<>>
    /\ provider_calls = <<>>
    /\ output = <<>>
    /\ result = Running
    /\ trace = <<>>

\* Arguments of get_aircraft_in_box: in range, on the limits, out of range,
\* ordered and not.
LatValues == {-91, -90, 0, 90, 91}
LonValues == {-181, -180, 0, 180, 181}
BoxInputs ==
    [min_lat : LatValues, max_lat : LatValues, min_lon : LonValues, max_lon : LonValues]

\* Arguments of get_weather: strings of blanks, tabs and letters.
CityChars == {" ", "\t", "P"}
CityInputs ==
    { [city |-> c] : c \in UNION { [1..n -> CityChars] : n \in 0..MaxCityLen } }

\* ---- the OpenSky answer
\* A state vector is a JSON list; what the code does with an element depends
\* on its type only: "null", "num", "str" (not a number), "bool", "list".
\* Python's state[i] is fields[i + 1].
GoodFields ==
    <<"str", "str", "str", "num", "num", "num", "num", "num", "bool", "num", "num">>

WithTag(f, i, t) == [f EXCEPT ![i + 1] = t]

FieldLists ==
    {GoodFields}
    \cup { WithTag(GoodFields, i, "null") : i \in {1, 3, 5, 6, 7, 9, 10} }
    \cup { WithTag(GoodFields, 5, "str"), WithTag(GoodFields, 5, "list"),
           SubSeq(GoodFields, 1, 6) }

\* The lists of state vectors; id stands for the icao24 of the aircraft.
StateLists ==
    UNION { { [i \in 1..n |-> [id |-> i, fields |-> g[i]]] : g \in [1..n -> FieldLists] }
            : n \in 0..MaxStates }

FlightUpstreams ==
    { [net |-> e, states |-> <<>>] : e \in {"error", "status", "bad_json"} }
    \cup { [net |-> "ok", states |-> st] : st \in StateLists }

\* float(x)
Float(t) ==
    IF t = "num" THEN "ok" ELSE IF t = "str" THEN "ValueError" ELSE "TypeError"

\* datetime.fromtimestamp(x)
FromTimestamp(t) == IF t = "num" THEN "ok" ELSE "TypeError"

\* state[1].strip() if state[1] else None
Callsign(t) ==
    IF t \in {"null", "str"} THEN "ok" ELSE "AttributeError"

\* The first entry of a list of step outcomes that is not "ok", or "ok".
FirstError(steps) ==
    LET bad == { k \in DOMAIN steps : steps[k] # "ok" }
    IN IF bad = {} THEN "ok"
       ELSE steps[CHOOSE k \in bad : \A j \in bad : k <= j]

\* all(state[i] is not None for i in [5, 6, 7, 9, 10]): "true", "false", or
\* IndexError when the list is too short; all() stops at the first None.
CheckedIndices == <<5, 6, 7, 9, 10>>

AllNotNone(f) ==
    LET RECURSIVE scan(_)
        scan(k) ==
            IF k > Len(CheckedIndices) THEN "true"
            ELSE IF CheckedIndices[k] + 1 > Len(f) THEN "IndexError"
            ELSE IF f[CheckedIndices[k] + 1] = "null" THEN "false"
            ELSE scan(k + 1)
    IN scan(1)

\* Aircraft(...) built from a state vector, arguments evaluated in order.
AircraftOf(vec) ==
    [icao24 |-> vec.id,
     callsign |-> IF vec.fields[2] = "null" THEN "None" ELSE "stripped",
     origin_country |-> vec.fields[3],
     longitude |-> "float", latitude |-> "float", altitude |-> "float",
     velocity |-> "float", heading |-> "float", timestamp |-> "datetime"]

\* One pass of the loop body over a state vector: "skip", "append", or the
\* exception it raises.
ParseState(vec) ==
    LET f == vec.fields
        chk == AllNotNone(f)
    IN IF chk = "IndexError" THEN "IndexError"
       ELSE IF chk = "false" THEN "skip"
       ELSE LET err == FirstError(<< Callsign(f[2]), Float(f[6]), Float(f[7]),
                                     Float(f[8]), Float(f[10]), Float(f[11]),
                                     FromTimestamp(f[4]) >>)
            IN IF err = "ok" THEN "append" ELSE err

\* The loop over data["states"]: the aircraft list, or the first exception.
ParseStates(states) ==
    LET RECURSIVE go(_, _)
        go(k, acc) ==
            IF k > Len(states) THEN Returned(acc)
            ELSE LET r == ParseState(states[k])
                 IN IF r = "skip" THEN go(k + 1, acc)
                    ELSE IF r = "append" THEN go(k + 1, Append(acc, AircraftOf(states[k])))
                    ELSE Raised(r)
    IN go(1, <<>>)

\* The except clauses of get_aircraft_in_box: requests' RequestException and
\* ValueError, KeyError, IndexError become OpenSkyAPIError; nothing else is
\* caught, httpx's own errors included.
FlightHandler(out) ==
    IF out.kind = "raise"
       /\ out.exc \in {"requests.RequestException", "ValueError", "KeyError", "IndexError"}
    THEN Raised("OpenSkyAPIError")
    ELSE out

\* The try block of get_aircraft_in_box on an upstream answer.
FlightTry(u) ==
    IF u.net \in {"error", "status"} THEN Raised("httpx.HTTPError")
    ELSE IF u.net = "bad_json" THEN Raised("ValueError")
    ELSE IF u.states = <<>> THEN Returned(<<>>)
    ELSE ParseStates(u.states)

\* ---- the OpenWeatherMap answer
\* The parts of the JSON object the code reads, by shape.
WeatherData ==
    [main : {"dict", "missing", "list", "no_temp"},
     wind : {"dict", "missing"},
     weather : {"list", "missing", "empty"},
     dt : {"num", "missing", "null"}]

WeatherUpstreams ==
    { [net |-> e, data |-> [main |-> "dict", wind |-> "dict", weather |-> "list",
                            dt |-> "num"]] : e \in {"error", "status", "bad_json"} }
    \cup { [net |-> "ok", data |-> d] : d \in WeatherData }

\* WeatherData(...) built from the answer, arguments evaluated in order.
WeatherFields(d) ==
    FirstError(<<
        IF d.main = "missing" THEN "KeyError"
        ELSE IF d.main = "list" THEN "TypeError"
        ELSE IF d.main = "no_temp" THEN "KeyError" ELSE "ok",
        IF d.wind = "missing" THEN "KeyError" ELSE "ok",
        IF d.weather = "missing" THEN "KeyError"
        ELSE IF d.weather = "empty" THEN "IndexError" ELSE "ok",
        IF d.dt = "missing" THEN "KeyError" ELSE FromTimestamp(d.dt) >>)

\* The except clauses of get_weather: RequestException and KeyError,
\* ValueError, TypeError become WeatherAPIError.
WeatherHandler(out) ==
    IF out.kind = "raise"
       /\ out.exc \in {"requests.RequestException", "KeyError", "ValueError", "TypeError"}
    THEN Raised("WeatherAPIError")
    ELSE out

\* The try block of get_weather on an upstream answer.
WeatherTry(u) ==
    IF u.net \in {"error", "status"} THEN Raised("httpx.HTTPError")
    ELSE IF u.net = "bad_json" THEN Raised("ValueError")
    ELSE LET err == WeatherFields(u.data)
         IN IF err = "ok" THEN Returned(<<"WeatherData">>) ELSE Raised(err)

\* ---- the calls
InitProvider ==
    /\ RunIdle
    /\ \/ prov_kind = "flight" /\ prov_input \in BoxInputs
       \/ prov_kind = "weather" /\ prov_input \in CityInputs
    /\ prov_pc = "validate"
    /\ upstream = NoUpstream
    /\ net_calls = 0
    /\ prov_result = Pending
    /\ DbIdle
    /\ ToolsIdle
    /\ EntryIdle

\* get_aircraft_in_box up to the request: the input validation.
FlightValidate ==
    /\ prov_kind = "flight"
    /\ prov_pc = "validate"
    /\ IF ValidBox(prov_input)
       THEN prov_pc' = "request" /\ UNCHANGED prov_result
       ELSE prov_pc' = "done" /\ prov_result' = Raised("ValueError")
    /\ UNCHANGED <<prov_kind, prov_input, upstream, net_calls,
                   run_vars, db_vars, api_vars, main_vars, tool_vars>>

\* httpx.get and everything after it.
FlightRequest ==
    /\ prov_kind = "flight"
    /\ prov_pc = "request"
    /\ \E u \in FlightUpstreams :
         /\ upstream' = u
         /\ prov_result' = FlightHandler(FlightTry(u))
    /\ net_calls' = net_calls + 1
    /\ prov_pc' = "done"
    /\ UNCHANGED <<prov_kind, prov_input, run_vars, db_vars, api_vars, main_vars, tool_vars>>

\* get_weather up to the request: the input validation.
WeatherValidate ==
    /\ prov_kind = "weather"
    /\ prov_pc = "validate"
    /\ IF ValidCity(prov_input)
       THEN prov_pc' = "request" /\ UNCHANGED prov_result
       ELSE prov_pc' = "done" /\ prov_result' = Raised("ValueError")
    /\ UNCHANGED <<prov_kind, prov_input, upstream, net_calls,
                   run_vars, db_vars, api_vars, main_vars, tool_vars>>

\* httpx.get and everything after it.
WeatherRequest ==
    /\ prov_kind = "weather"
    /\ prov_pc = "request"
    /\ \E u \in WeatherUpstreams :
         /\ upstream' = u
         /\ prov_result' = WeatherHandler(WeatherTry(u))
    /\ net_calls' = net_calls + 1
    /\ prov_pc' = "done"
    /\ UNCHANGED <<prov_kind, prov_input, run_vars, db_vars, api_vars, main_vars, tool_vars>>

NextProvider ==
    \/ FlightValidate
    \/ FlightRequest
    \/ WeatherValidate
    \/ WeatherRequest

SpecProvider == InitProvider /\ [][NextProvider]_vars

\* ===================================================== PostgresManager
\* Most execute_query calls on one manager.
MaxDbOps == 3

\* What _fetch_schema_info can find: tables with their columns, and the
\* foreign keys.
Schemas ==
    { [tables |-> << <<"users", <<"id">> >> >>, relationships |-> <<>>],
      [tables |-> << <<"users", <<"id">> >>, <<"orders", <<"id", "user_id">> >> >>,
       relationships |-> << <<"orders", "user_id", "users", "id">> >>] }

\* create_tool_definition(schema_info) of the SQL variant: one descriptor,
\* its description built from the tables and the relationships.
SqlToolDefinition(si) ==
    << [name |-> "execute_sql",
        description |-> <<"Tables and Columns:", si.tables,
                          "Relationships:", si.relationships>>,
        required |-> <<"query">>] >>

\* A descriptor built from what the database holds now.
SchemaArgument_Live == db_schema

\* The argument db_manager.schema_info of create_tool_definition.
SchemaArgument == schema_info

\* A connection object as psycopg2.connect returns it.
NewConn == [closed |-> FALSE, broken |-> FALSE, tx |-> "idle"]

\* A test that misses a closed connection.
NeedsConnect_NoneOnly(c, conns) == c = 0

\* if self._connection is None or self._connection.closed:
NeedsConnect(c, conns) == c = 0 \/ conns[c].closed

\* _get_connection: the held connection, or a new one that replaces it;
\* DatabaseError when psycopg2.connect fails.
GetConnection ==
    IF NeedsConnect(connection, db_conns)
    THEN IF db_up
         THEN [ok |-> TRUE, connected |-> "ok",
               connection |-> Len(db_conns) + 1, conns |-> Append(db_conns, NewConn)]
         ELSE [ok |-> FALSE, connected |-> "failed",
               connection |-> connection, conns |-> db_conns]
    ELSE [ok |-> TRUE, connected |-> "no",
          connection |-> connection, conns |-> db_conns]

\* cur.execute(query); cur.fetchall(); conn.commit() on a connection object:
\* the outcome and the object afterwards.  A closed or broken connection and
\* a transaction that has failed refuse every statement; a failing statement
\* leaves the transaction failed, since nothing rolls it back.
RunQuery(c, q) ==
    IF c.closed THEN [out |-> Raised("psycopg2.Error"), conn |-> c]
    ELSE IF c.broken
    THEN [out |-> Raised("psycopg2.Error"), conn |-> [c EXCEPT !.closed = TRUE]]
    ELSE IF c.tx = "aborted" THEN [out |-> Raised("psycopg2.Error"), conn |-> c]
    ELSE IF q = "SELECT 1 FROM nonexistent_table"
    THEN [out |-> Raised("psycopg2.Error"), conn |-> [c EXCEPT !.tx = "aborted"]]
    ELSE [out |-> Returned("records"), conn |-> [c EXCEPT !.tx = "idle"]]

\* except psycopg2.Error: raise DatabaseError
DbHandler(out) ==
    IF out.kind = "raise" /\ out.exc = "psycopg2.Error"
    THEN Raised("DatabaseError") ELSE out

InitDb ==
    /\ RunIdle
    /\ ProviderIdle
    /\ EntryIdle
    /\ ToolsIdle
    /\ db_pc = "new"
    /\ connection = 0
    /\ schema_info = NoSchema
    /\ db_conns = <<>>
    /\ db_up \in BOOLEAN
    /\ db_schema \in Schemas
    /\ db_hist = [fetches |-> 0, built |-> NoSchema, tools |-> <<>>,
                  last |-> NoDbCall, ops |-> 0]

\* PostgresManager.__init__: _connection = None, then _fetch_schema_info
\* connects and reads the schema; the transaction it opens is not committed.
DbConstruct ==
    /\ db_pc = "new"
    /\ LET g == GetConnection
       IN IF g.ok
          THEN /\ connection' = g.connection
               /\ db_conns' = [g.conns EXCEPT ![g.connection].tx = "intrans"]
               /\ schema_info' = db_schema
               /\ db_pc' = "ready"
               /\ db_hist' = [db_hist EXCEPT !.fetches = @ + 1, !.built = db_schema]
          ELSE /\ db_pc' = "failed"
               /\ db_hist' = [db_hist EXCEPT !.fetches = @ + 1]
               /\ UNCHANGED <<connection, db_conns, schema_info>>
    /\ UNCHANGED <<db_up, db_schema, run_vars, prov_vars, api_vars, main_vars, tool_vars>>

\* PostgresManager.execute_query(query).
DbExecuteQuery ==
    /\ db_pc = "ready"
    /\ db_hist.ops < MaxDbOps
    /\ \E inp \in SqlInputs :
         LET had_open == connection # 0 /\ ~db_conns[connection].closed
             g == GetConnection
         IN IF ~g.ok
            THEN /\ db_hist' = [db_hist EXCEPT
                        !.ops = @ + 1,
                        !.last = [op |-> "execute_query", query |-> inp.query,
                                  had_open |-> had_open,
                                  connected |-> g.connected, ran_on |-> 0,
                                  ran_closed |-> FALSE, tx_before |-> "none",
                                  outcome |-> Raised("DatabaseError")]]
                 /\ UNCHANGED <<connection, db_conns>>
            ELSE LET r == RunQuery(g.conns[g.connection], inp.query)
                 IN /\ connection' = g.connection
                    /\ db_conns' = [g.conns EXCEPT ![g.connection] = r.conn]
                    /\ db_hist' = [db_hist EXCEPT
                           !.ops = @ + 1,
                           !.last = [op |-> "execute_query", query |-> inp.query,
                                     had_open |-> had_open,
                                     connected |-> g.connected,
                                     ran_on |-> g.connection,
                                     ran_closed |-> g.conns[g.connection].closed,
                                     tx_before |-> g.conns[g.connection].tx,
                                     outcome |-> DbHandler(r.out)]]
    /\ UNCHANGED <<db_pc, schema_info, db_up, db_schema,
                   run_vars, prov_vars, api_vars, main_vars, tool_vars>>

\* An LLM call of the SQL variant builds its tools argument:
\* create_tool_definition(db_manager.schema_info).
DbBuildTools ==
    /\ db_pc = "ready"
    /\ db_hist' = [db_hist EXCEPT !.tools = SqlToolDefinition(SchemaArgument)]
    /\ UNCHANGED <<db_pc, connection, schema_info, db_conns, db_up, db_schema,
                   run_vars, prov_vars, api_vars, main_vars, tool_vars>>

\* The server ends the session of the held connection; the client learns of
\* it at the next statement.
DbServerDrops ==
    /\ db_pc = "ready"
    /\ connection # 0
    /\ ~db_conns[connection].closed
    /\ ~db_conns[connection].broken
    /\ db_conns' = [db_conns EXCEPT ![connection].broken = TRUE]
    /\ UNCHANGED <<db_pc, connection, schema_info, db_up, db_schema, db_hist,
                   run_vars, prov_vars, api_vars, main_vars, tool_vars>>

\* The server goes down or comes back.
DbServerToggles ==
    /\ db_up' = ~db_up
    /\ UNCHANGED <<db_pc, connection, schema_info, db_conns, db_schema, db_hist,
                   run_vars, prov_vars, api_vars, main_vars, tool_vars>>

\* Someone changes the schema of the database.
DbSchemaChanges ==
    /\ db_schema' \in Schemas \ {db_schema}
    /\ UNCHANGED <<db_pc, connection, schema_info, db_conns, db_up, db_hist,
                   run_vars, prov_vars, api_vars, main_vars, tool_vars>>

NextDb ==
    \/ DbConstruct
    \/ DbExecuteQuery
    \/ DbBuildTools
    \/ DbServerDrops
    \/ DbServerToggles
    \/ DbSchemaChanges

SpecDb == InitDb /\ [][NextDb]_vars

\* ====================================================== POST /api/query
JObject(keys, q) == [type |-> "object", members |-> keys, query |-> q, num |-> 0]
JArray(items) == [type |-> "array", members |-> items, query |-> "", num |-> 0]
JString(words) == [type |-> "string", members |-> words, query |-> "", num |-> 0]
JNumber(n) == [type |-> "number", members |-> {}, query |-> "", num |-> n]

JsonValues ==
    { JNull, JObject({}, ""), JObject({"text"}, ""),
      JArray({"query"}), JString({"query"}), JNumber(0), JNumber(5) }
    \cup { JObject({"query"}, q) : q \in UserQueries }

InvalidBody == [kind |-> "invalid", value |-> JNull]
JsonBody(v) == [kind |-> "json", value |-> v]

\* The requests a client can send: any body under a JSON content type, and
\* no body or a JSON body under another content type.
Requests ==
    { [json_mimetype |-> TRUE, body |-> b] :
        b \in {EmptyBody, InvalidBody} \cup { JsonBody(v) : v \in JsonValues } }
    \cup { [json_mimetype |-> FALSE, body |-> b] :
        b \in {EmptyBody} \cup { JsonBody(JObject({"query"}, q)) : q \in UserQueries } }

Parsed(v) == [kind |-> "ok", data |-> v, exc |-> ""]
Failed(exc) == [kind |-> "raise", data |-> JNull, exc |-> exc]

\* request.get_json(): the parsed body; BadRequest when the body of a JSON
\* request does not parse; for a request that is not JSON, None or an HTTP
\* error, as the installed Flask decides.
get_json(req) ==
    IF req.json_mimetype
    THEN IF req.body.kind = "json" THEN { Parsed(req.body.value) }
         ELSE { Failed("BadRequest") }
    ELSE { Parsed(JNull), Failed("BadRequest"), Failed("UnsupportedMediaType") }

\* Python's truth value of the parsed body.
Truthy(v) ==
    IF v.type = "null" THEN FALSE
    ELSE IF v.type = "number" THEN v.num # 0
    ELSE v.members # {}

\* if not data or 'query' not in data: the 400 answer, the exception of
\* the test or of data['query'], or the query handed to the orchestrator.
Validate(data) ==
    IF ~Truthy(data) THEN [kind |-> "missing", query |-> "", exc |-> ""]
    ELSE IF data.type = "number"
    THEN [kind |-> "raise", query |-> "", exc |-> "TypeError"]
    ELSE IF "query" \notin data.members
    THEN [kind |-> "missing", query |-> "", exc |-> ""]
    ELSE IF data.type # "object"
    THEN [kind |-> "raise", query |-> "", exc |-> "TypeError"]
    ELSE [kind |-> "call", query |-> data.query, exc |-> ""]

MissingData ==
    [status |-> 400,
     body |-> [error |-> "Missing Data",
               message |-> "Request must include a \"query\" field",
               response |-> None]]

Answer(val) ==
    [status |-> 200, body |-> [error |-> "", message |-> "", response |-> val]]

\* An answer that carries the exception's text.
InternalServerError_Detail(exc) ==
    [status |-> 500,
     body |-> [error |-> "Internal Server Error", message |-> exc, response |-> None]]

\* except Exception as e: the fixed body, whatever e is.
InternalServerError(exc) ==
    [status |-> 500,
     body |-> [error |-> "Internal Server Error",
               message |-> "An unexpected error occurred", response |-> None]]

\* app.logger.error(f'Unexpected error: {str(e)}')
LogError(log, exc) == Append(log, <<"Unexpected error", exc>>)

InitApi ==
    /\ RunIdle
    /\ ProviderIdle
    /\ DbIdle
    /\ ToolsIdle
    /\ api_pc = "idle"
    /\ request \in Requests
    /\ http_response = NoResponse
    /\ api_log = <<>>
    /\ main_pc = "idle"
    /\ main_input = ""
    /\ main_runs = 0
    /\ main_log = <<>>

\* query_claude up to the call of process_claude_conversation: the request
\* is answered with 400 or 500 at once, or the orchestrator starts on
\* data['query'].
ApiReceive ==
    /\ api_pc = "idle"
    /\ \E got \in get_json(request) :
         LET v == IF got.kind = "raise"
                  THEN [kind |-> "raise", query |-> "", exc |-> got.exc]
                  ELSE Validate(got.data)
         IN IF v.kind = "call"
            THEN /\ api_pc' = "running"
                 /\ variant' = "flight"
                 /\ user_query' = v.query
                 /\ pc' = "llm1"
                 /\ message_history' = << UserTurn(v.query) >>
                 /\ UNCHANGED <<http_response, api_log>>
            ELSE /\ api_pc' = "done"
                 /\ http_response' = IF v.kind = "missing" THEN MissingData
                                      ELSE InternalServerError(v.exc)
                 /\ api_log' = IF v.kind = "missing" THEN api_log
                                ELSE LogError(api_log, v.exc)
                 /\ UNCHANGED <<variant, user_query, pc, message_history>>
    /\ UNCHANGED <<request, response, final_response, idx, llm_calls,
                   provider_calls, output, result, trace,
                   prov_vars, db_vars, main_vars, tool_vars>>

\* query_claude after process_claude_conversation has returned or raised.
ApiRespond ==
    /\ api_pc = "running"
    /\ pc = "done"
    /\ api_pc' = "done"
    /\ IF result.kind = "return"
       THEN /\ http_response' = Answer(result.value)
            /\ UNCHANGED api_log
       ELSE /\ http_response' = InternalServerError(result.exc)
            /\ api_log' = LogError(api_log, result.exc)
    /\ UNCHANGED <<request, run_vars, prov_vars, db_vars, main_vars, tool_vars>>

NextApi ==
    \/ ApiReceive
    \/ FirstLLMCallFails
    \/ FirstLLMCall
    \/ ProviderCall
    \/ FinalLLMCallFails
    \/ FinalLLMCall
    \/ ApiRespond

SpecApi == InitApi /\ [][NextApi]_vars

\* ================================================== interactive main()
\* Most queries entered in one session.
MaxRuns == 2

\* What the user can type at the prompt.
MainInputs == UserQueries \cup {"exit", "EXIT"}

\* str.lower() on the inputs.
Lower(s) ==
    IF s = "EXIT" THEN "exit"
    ELSE IF s = "show me planes over Sofia" THEN "show me planes over sofia"
    ELSE IF s = "What's the weather in Paris?" THEN "what's the weather in paris?"
    ELSE s

\* The exceptions of the statements before the loop: WeatherService() without
\* an API key, PostgresManager(db_config) without a database.
StartupErrors(v) ==
    IF v = "weather" THEN {"ValueError"}
    ELSE IF v = "sql" THEN {"DatabaseError"}
    ELSE {}

\* The handler of main that logs exception exc.
ErrorLabel(v, exc) ==
    IF v = "flight" /\ exc = "anthropic.APIError" THEN "Anthropic API error"
    ELSE IF v = "sql" /\ exc = "DatabaseError" THEN "Database error"
    ELSE "Unexpected error"

\* The try statement encloses the loop and every handler ends in raise: an
\* exception of a run leaves main.
MainErrorControl == "raised"

InitMain ==
    /\ variant \in Variants
    /\ user_query = ""
    /\ pc = "idle"
    /\ message_history = <<>>
    /\ response = NoReply
    /\ final_response = NoReply
    /\ idx = 0
    /\ llm_calls = <<>>
    /\ provider_calls = <<>>
    /\ output = <<>>
    /\ result = Running
    /\ trace = <<>>
    /\ ProviderIdle
    /\ DbIdle
    /\ ToolsIdle
    /\ api_pc = "idle"
    /\ request = NoRequest
    /\ http_response = NoResponse
    /\ api_log = <<>>
    /\ main_pc = "start"
    /\ main_input = ""
    /\ main_runs = 0
    /\ main_log = <<>>

\* The statements of main before the loop.
MainStart ==
    /\ main_pc = "start"
    /\ \/ /\ main_pc' = "prompt"
          /\ UNCHANGED main_log
       \/ \E exc \in StartupErrors(variant) :
            /\ main_pc' = "failed"
            /\ main_log' = Append(main_log, <<"error", ErrorLabel(variant, exc), exc>>)
    /\ UNCHANGED <<main_input, main_runs, run_vars, prov_vars, db_vars, api_vars, tool_vars>>

\* input(...): "exit" in any case ends the loop, any other line starts a run
\* of process_claude_conversation on it.
MainInput ==
    /\ main_pc = "prompt"
    /\ \E inp \in MainInputs :
         /\ main_input' = inp
         /\ IF Lower(inp) = "exit"
            THEN /\ main_pc' = "exited"
                 /\ UNCHANGED <<main_runs, run_vars>>
            ELSE /\ main_runs < MaxRuns
                 /\ main_pc' = "running"
                 /\ main_runs' = main_runs + 1
                 /\ user_query' = inp
                 /\ pc' = "llm1"
                 /\ message_history' = << UserTurn(inp) >>
                 /\ response' = NoReply
                 /\ final_response' = NoReply
                 /\ idx' = 0
                 /\ llm_calls' = <<>>
                 /\ provider_calls' = <<>>
                 /\ output' = <<>>
                 /\ result' = Running
                 /\ trace' = <<>>
                 /\ UNCHANGED variant
    /\ UNCHANGED <<main_log, prov_vars, db_vars, api_vars, tool_vars>>

\* The run has returned or raised: the flight variant prints what it
\* returned and every variant prompts again; an exception is logged by the
\* handler around the loop and raised again.
MainAfterRun ==
    /\ main_pc = "running"
    /\ pc = "done"
    /\ IF result.kind = "return"
       THEN /\ main_pc' = "prompt"
            /\ main_log' = IF variant = "flight"
                            THEN Append(main_log, <<"print", "", result.value>>)
                            ELSE main_log
       ELSE /\ main_pc' = MainErrorControl
            /\ main_log' = Append(main_log,
                   <<"error", ErrorLabel(variant, result.exc), result.exc>>)
    /\ UNCHANGED <<main_input, main_runs, run_vars, prov_vars, db_vars, api_vars, tool_vars>>

NextMain ==
    \/ MainStart
    \/ MainInput
    \/ FirstLLMCallFails
    \/ FirstLLMCall
    \/ ProviderCall
    \/ FinalLLMCallFails
    \/ FinalLLMCall
    \/ MainAfterRun

SpecMain == InitMain /\ [][NextMain]_vars

\* ================================================= create_tool_definition
\* create_tool_definition() of the flight variant.
FlightToolDefinition ==
    << [name |-> "get_aircraft",
        description |-> <<"Get real-time information about aircraft within a specified geographic bounding box.">>,
        required |-> <<"min_lat", "max_lat", "min_lon", "max_lon">>] >>

\* create_tool_definition() of the weather variant.
WeatherToolDefinition ==
    << [name |-> "get_weather",
        description |-> <<"Get current weather information for a specific city.">>,
        required |-> <<"city">>] >>

\* A builder that returns the descriptors of every variant.
ToolDefinition_AllTools(v, si) ==
    FlightToolDefinition \o WeatherToolDefinition \o SqlToolDefinition(si)

\* create_tool_definition of variant v; only the SQL builder has an argument.
ToolDefinition(v, si) ==
    IF v = "flight" THEN FlightToolDefinition
    ELSE IF v = "weather" THEN WeatherToolDefinition
    ELSE SqlToolDefinition(si)

\* schema_info dictionaries a builder can be given.  "tables" is a dict: the
\* sequence is its insertion order, the order of the rows of a query that
\* has no ORDER BY.
BuilderSchemas ==
    LET users == <<"users", <<"id">> >>
        orders == <<"orders", <<"id", "user_id">> >>
        fk == <<"orders", "user_id", "users", "id">>
    IN { NoSchema,
         [tables |-> <<users>>, relationships |-> <<>>],
         [tables |-> <<users, orders>>, relationships |-> <<>>],
         [tables |-> <<orders, users>>, relationships |-> <<>>],
         [tables |-> <<users, orders>>, relationships |-> <<fk>>],
         [tables |-> <<orders, users>>, relationships |-> <<fk>>] }

InitTools ==
    /\ RunIdle
    /\ ProviderIdle
    /\ DbIdle
    /\ EntryIdle
    /\ \/ \E v \in {"flight", "weather"} :
            tool_in = [builder |-> v, first |-> NoSchema, second |-> NoSchema]
       \/ \E a, b \in BuilderSchemas :
            tool_in = [builder |-> "sql", first |-> a, second |-> b]
    /\ tool_out = <<>>

\* The first call of the builder.
ToolsFirstCall ==
    /\ tool_in.builder # "none"
    /\ Len(tool_out) = 0
    /\ tool_out' = Append(tool_out, ToolDefinition(tool_in.builder, tool_in.first))
    /\ UNCHANGED <<tool_in, run_vars, prov_vars, db_vars, api_vars, main_vars>>

\* The second call of the builder.
ToolsSecondCall ==
    /\ tool_in.builder # "none"
    /\ Len(tool_out) = 1
    /\ tool_out' = Append(tool_out, ToolDefinition(tool_in.builder, tool_in.second))
    /\ UNCHANGED <<tool_in, run_vars, prov_vars, db_vars, api_vars, main_vars>>

NextTools ==
    \/ ToolsFirstCall
    \/ ToolsSecondCall

SpecTools == InitTools /\ [][NextTools]_vars

\* ================================================================= claims
\* What the run has handed to the user: the returned text in the flight
\* variant, the printed texts in the SQL and weather variants.
Delivered ==
    IF variant = "flight"
    THEN IF result.kind = "return" /\ result.value # None
         THEN <<result.value>> ELSE <<>>
    ELSE output

GotFirstReply == response # NoReply

IsErrorResult(b) == "is_error" \in DOMAIN b /\ b.is_error

\* The conversation holds, after the assistant turn, an error-flagged tool
\* result for provider call c carrying the message of its exception.
ErrorResultAppended(c) ==
    \E j \in 3..Len(message_history) :
        /\ message_history[j].role = "user"
        /\ IsErrorResult(message_history[j].content[1])
        /\ message_history[j].content[1].tool_use_id = c.id
        /\ message_history[j].content[1].content = StrOfError(c.outcome.exc)

\* C1: in every variant, a run whose first reply stops for a reason other
\* than tool_use and holds a text block delivers exactly that reply's first
\* text block.
C1_PlainCompletionDeliversFirstText ==
    (/\ pc = "done"
     /\ GotFirstReply
     /\ response.stop_reason # "tool_use"
     /\ HasText(response.content))
    => Delivered = << Head(Texts(response.content)) >>

\* C2: when the first reply's stop_reason is not tool_use the provider is
\* never called and the LLM is called exactly once, whatever blocks the
\* reply holds.
C2_NoToolUseNoDispatch ==
    (GotFirstReply /\ response.stop_reason # "tool_use")
    => /\ Len(provider_calls) = 0
       /\ Len(llm_calls) = 1
       /\ pc = "done"

C2_Witness ==
    /\ pc = "done"
    /\ response.stop_reason = "end_turn"
    /\ \E i \in DOMAIN response.content : response.content[i].type = "tool_use"

\* C3: in every variant, the provider's own error raised by a tool execution
\* does not leave process_claude_conversation and is appended as an
\* error-flagged tool result carrying the message.
C3_ProviderErrorBecomesErrorResult ==
    \A k \in DOMAIN provider_calls :
        LET c == provider_calls[k]
        IN (c.outcome.kind = "raise" /\ c.outcome.exc = ProviderError(variant))
           => /\ result.kind # "raise"
              /\ ErrorResultAppended(c)

\* C4: in the SQL and weather variants, once a provider error has been
\* appended as an error result, a second LLM call is made with a
\* conversation that holds that result.
C4_ErrorResultStillGetsSecondCall ==
    (pc = "done" /\ variant \in {"sql", "weather"})
    => \A j \in 3..Len(message_history) :
          IsErrorResult(message_history[j].content[1])
          => \E k \in 2..Len(llm_calls) :
                /\ Len(llm_calls[k]) >= j
                /\ llm_calls[k][j] = message_history[j]

\* C5: a ValueError of the provider's input validation is caught and
\* appended as an error tool result; it does not leave
\* process_claude_conversation.
C5_ValidationErrorBecomesErrorResult ==
    \A k \in DOMAIN provider_calls :
        LET c == provider_calls[k]
        IN (c.outcome.kind = "raise" /\ c.outcome.exc = "ValueError")
           => /\ result.kind # "raise"
              /\ ErrorResultAppended(c)

\* C6: on the tool-use path, when the second reply holds a text block, what
\* the run delivers is exactly the first text block of the second reply.
C6_SecondReplyFirstTextOnly ==
    (/\ pc = "done"
     /\ result.kind = "return"
     /\ Len(llm_calls) = 2
     /\ HasText(final_response.content))
    => Delivered = << Head(Texts(final_response.content)) >>

\* C7: the flight variant never returns None.
C7_FlightNeverReturnsNone ==
    (variant = "flight" /\ pc = "done" /\ result.kind = "return")
    => result.value # None

\* C8: a run calls the provider at most once and the LLM at most twice.
C8_AtMostOneDispatch ==
    Len(provider_calls) <= 1 /\ Len(llm_calls) <= 2

\* C9: the tool results of the conversation are, in order, those of the
\* provider calls that returned or whose error was caught; each carries the
\* id of the tool_use block that call executed, and that block is in the
\* assistant turn of the conversation.
C9_ToolResultCorrelated ==
    LET handled == SelectSeq(provider_calls,
                       LAMBDA c : c.outcome.kind = "ok"
                                  \/ (variant # "flight"
                                      /\ c.outcome.exc = ProviderError(variant)))
    IN /\ Len(message_history) = (IF GotFirstReply THEN 2 ELSE 1) + Len(handled)
       /\ \A k \in DOMAIN handled :
            LET turn == message_history[2 + k]
            IN /\ turn.role = "user"
               /\ Len(turn.content) = 1
               /\ turn.content[1].type = "tool_result"
               /\ turn.content[1].tool_use_id = handled[k].id
               /\ IsErrorResult(turn.content[1]) <=> handled[k].outcome.kind = "raise"
               /\ message_history[2].role = "assistant"
               /\ \E i \in DOMAIN message_history[2].content :
                     LET b == message_history[2].content[i]
                     IN /\ b.type = "tool_use"
                        /\ b.id = handled[k].id
                        /\ b.input = handled[k].input

C9_Witness ==
    /\ pc = "done"
    /\ Len(message_history) = 4
    /\ IsErrorResult(message_history[3].content[1])
    /\ ~IsErrorResult(message_history[4].content[1])

\* C10: the steps of the tool-use path run one after the other in the order
\* LLM call, append of the assistant turn, provider call, append of the tool
\* result, LLM call; with one tool_use block in the first reply the second
\* LLM call gets exactly [user query, first reply, tool result].
C10_SequentialOrder ==
    /\ \A n \in DOMAIN trace :
          /\ (n = 1) => trace[n] = "llm_call"
          /\ (trace[n] = "append_assistant") => (n = 2)
          /\ (n = 2) => trace[n] \in {"append_assistant", "llm_error"}
          /\ (trace[n] = "provider_call") => n >= 3
          /\ (trace[n] = "append_tool_result") => trace[n - 1] = "provider_call"
          /\ (trace[n] = "llm_call" /\ n > 1)
                => trace[n - 1] = "append_tool_result"
    /\ Len(llm_calls) >= 1 => llm_calls[1] = << UserTurn(user_query) >>
    /\ (/\ Len(llm_calls) >= 2
        /\ Cardinality({ i \in DOMAIN response.content :
                            response.content[i].type = "tool_use" }) = 1)
       => LET i == NextToolUse(response.content, 1)
              turn == [role |-> "user",
                       content |-> << [type |-> "tool_result",
                                       tool_use_id |-> response.content[i].id,
                                       content |-> StrOfData(
                                           provider_calls[1].outcome.data)] >>]
          IN /\ Len(llm_calls) = 2
             /\ Len(llm_calls[2]) = 3
             /\ llm_calls[2][1] = UserTurn(user_query)
             /\ llm_calls[2][2] = [role |-> "assistant", content |-> response.content]
             /\ llm_calls[2][3] = turn

C10_Witness ==
    /\ pc = "done"
    /\ result.kind = "return"
    /\ Len(llm_calls) = 2
    /\ Cardinality({ i \in DOMAIN response.content :
                        response.content[i].type = "tool_use" }) = 1

\* C11: the conversation only grows by appending: every step keeps the
\* previous conversation as a prefix of the new one, turn for turn, and the
\* first turn stays the user turn holding the query.
C11_AppendOnly ==
    [][ /\ Len(message_history') >= Len(message_history)
        /\ \A j \in 1..Len(message_history) :
              /\ message_history'[j].role = message_history[j].role
              /\ message_history'[j].content = message_history[j].content
        /\ message_history'[1].role = "user"
        /\ message_history'[1].content = user_query ]_vars

C11_Witness ==
    /\ pc = "done"
    /\ Len(message_history) = 4

\* C12: a failed LLM call is the last step of the run: it is not made again,
\* no LLM or provider call follows it, and the run ends raising the error.
C12_LLMFailureNotRetried ==
    \A n \in DOMAIN trace :
        trace[n] = "llm_error"
        => /\ n = Len(trace)
           /\ trace[n - 1] = "llm_call"
           /\ pc = "done"
           /\ result.kind = "raise"
           /\ result.exc = "anthropic.APIError"
           /\ Cardinality({ m \in DOMAIN trace : trace[m] = "llm_error" }) = 1

C12_Witness ==
    /\ pc = "done"
    /\ result.exc = "anthropic.APIError"
    /\ Len(llm_calls) = 2
    /\ Len(provider_calls) = 1

\* The provider input is one the validation has to refuse.
InvalidBox ==
    \/ prov_input.min_lat < -90 \/ prov_input.min_lat > 90
    \/ prov_input.max_lat < -90 \/ prov_input.max_lat > 90
    \/ prov_input.min_lon < -180 \/ prov_input.min_lon > 180
    \/ prov_input.max_lon < -180 \/ prov_input.max_lon > 180
    \/ prov_input.min_lat > prov_input.max_lat
    \/ prov_input.min_lon > prov_input.max_lon

BlankCity == \A i \in DOMAIN prov_input.city : prov_input.city[i] \in {" ", "\t"}

InvalidInput ==
    \/ prov_kind = "flight" /\ InvalidBox
    \/ prov_kind = "weather" /\ BlankCity

\* C13: on every invalid input the provider issues no network call and ends
\* with ValueError.
C13_InvalidInputNoNetwork ==
    InvalidInput
    => /\ net_calls = 0
       /\ prov_pc # "request"
       /\ prov_pc = "done"
            => prov_result.kind = "raise" /\ prov_result.exc = "ValueError"

C13_Witness ==
    /\ prov_kind = "flight"
    /\ prov_pc = "done"
    /\ prov_input.min_lat = 0 /\ prov_input.max_lat = 90
    /\ prov_input.min_lon = 180 /\ prov_input.max_lon = -180
    /\ prov_result.exc = "ValueError"

\* The fields of a state vector an Aircraft needs, and the vectors that have
\* them all.
NeededIndices == {3, 5, 6, 7, 9, 10}

Complete(vec) == \A i \in NeededIndices : vec.fields[i + 1] # "null"

\* Every state vector of the answer is well typed, nulls apart.
WellTyped(states) ==
    \A k \in DOMAIN states :
        /\ Len(states[k].fields) = Len(GoodFields)
        /\ \A i \in DOMAIN GoodFields :
              states[k].fields[i] \in {GoodFields[i], "null"}

\* C14: for a valid box, the state vectors with a null in a needed field are
\* left out and never make the fetch fail; the others are returned in the
\* upstream order.
C14_NullVectorsSkipped ==
    (/\ prov_kind = "flight"
     /\ prov_pc = "done"
     /\ upstream.net = "ok"
     /\ WellTyped(upstream.states))
    => /\ prov_result.kind = "ok"
       /\ LET kept == SelectSeq(upstream.states, Complete)
          IN /\ Len(prov_result.data) = Len(kept)
             /\ \A k \in DOMAIN kept : prov_result.data[k].icao24 = kept[k].id

\* C15: a provider call that got past the validation returns, or raises the
\* provider's own error kind.
C15_OnlyProviderErrors ==
    (prov_pc = "done" /\ net_calls = 1)
    => \/ prov_result.kind = "ok"
       \/ prov_result.exc = ProviderError(prov_kind)

\* C16: schema_info is fetched once, at construction, and nothing changes it
\* afterwards; every tool descriptor of the SQL variant is built from it.
C16_SchemaFetchedOnce ==
    db_pc = "ready"
    => /\ schema_info = db_hist.built
       /\ db_hist.fetches = 1
       /\ db_hist.tools # <<>>
            => /\ Len(db_hist.tools) = 1
               /\ db_hist.tools[1].description[2] = db_hist.built.tables
               /\ db_hist.tools[1].description[4] = db_hist.built.relationships

C16_Witness ==
    /\ db_pc = "ready"
    /\ db_schema # db_hist.built
    /\ db_hist.tools # <<>>
    /\ db_hist.ops >= 2
    /\ Len(db_conns) = 2

\* C17: every connection object but the held one is closed; execute_query
\* connects exactly when it holds no open connection, runs the statement on
\* an open connection, and fails with DatabaseError when connecting fails.
C17_OneOpenConnection ==
    /\ \A i \in DOMAIN db_conns : i # connection => db_conns[i].closed
    /\ db_hist.last.op = "execute_query"
         => LET l == db_hist.last
            IN /\ (l.connected # "no") <=> ~l.had_open
               /\ l.ran_on # 0 => ~l.ran_closed
               /\ l.ran_on = 0
                    => /\ l.connected = "failed"
                       /\ l.outcome.kind = "raise"
                       /\ l.outcome.exc = "DatabaseError"
               /\ l.outcome.kind = "raise" => l.outcome.exc = "DatabaseError"

C17_Witness ==
    /\ db_hist.last.op = "execute_query"
    /\ db_hist.last.connected = "ok"
    /\ db_hist.last.outcome.kind = "ok"
    /\ Len(db_conns) = 2
    /\ db_conns[1].closed

\* A request whose input is missing or invalid: no body, a body that is not
\* valid JSON, or a JSON body without a "query" field.
InvalidRequest(req) ==
    \/ req.body.kind \in {"empty", "invalid"}
    \/ /\ req.body.kind = "json"
       /\ ~(req.body.value.type = "object" /\ "query" \in req.body.value.members)

\* C18: a request whose input is missing or invalid is answered with status
\* 400 and an {error, message} body, and the orchestrator is not invoked.
C18_InvalidInputIs400 ==
    (api_pc = "done" /\ InvalidRequest(request))
    => /\ http_response.status = 400
       /\ http_response.body.error # ""
       /\ http_response.body.message # ""
       /\ llm_calls = <<>>
       /\ variant = "none"

\* C19: an exception of the orchestrator is answered with status 500 and the
\* fixed body, whatever the exception; the detail goes to the log only.
C19_GenericInternalError ==
    (api_pc = "done" /\ variant = "flight" /\ result.kind = "raise")
    => /\ http_response.status = 500
       /\ http_response.body.error = "Internal Server Error"
       /\ http_response.body.message = "An unexpected error occurred"
       /\ http_response.body.response = None
       /\ api_log = << <<"Unexpected error", result.exc>> >>

C19_Witness ==
    /\ api_pc = "done"
    /\ variant = "flight"
    /\ result.kind = "raise"
    /\ result.exc = "OpenSkyAPIError"
    /\ Len(llm_calls) = 1
    /\ http_response.status = 500

\* C20: after a run that failed with an error, the error is reported and main
\* prompts for the next query; the loop ends only on the input "exit" (in
\* any letter case, as the code compares).
C20_LoopContinuesAfterError ==
    /\ (main_pc \notin {"running", "start", "failed"} /\ main_runs > 0
          /\ result.kind = "raise")
         => /\ main_pc = "prompt"
            /\ main_log # <<>>
            /\ main_log[Len(main_log)][1] = "error"
            /\ main_log[Len(main_log)][3] = result.exc
    /\ main_pc \notin {"start", "prompt", "running", "failed"}
         => (main_pc = "exited" /\ main_input \in {"exit", "EXIT"})

\* Python's == on two schema_info dictionaries: the "tables" dicts hold the
\* same keys with the same values, in any order; the "relationships" lists
\* are equal item by item.
DictEqual(a, b) ==
    /\ { a.tables[i] : i \in DOMAIN a.tables } = { b.tables[i] : i \in DOMAIN b.tables }
    /\ a.relationships = b.relationships

C22_SecondReplyAppended ==
    (pc = "done" /\ result.kind = "return" /\ final_response # NoReply)
    => /\ Len(message_history) = 4
       /\ message_history[4].role = "assistant"
       /\ message_history[4].content = final_response.content

\* The tool-invocation blocks of a reply.
ToolUses(reply) ==
    { i \in DOMAIN reply.content : reply.content[i].type = "tool_use" }

\* C23: every provider call is for a tool-invocation block of the first
\* reply, a tool-use request in a second-round reply causes no call, and the
\* run ends after at most 1 + (tool-invocation blocks of the first reply)
\* LLM calls.
C23_OneRoundTerminates ==
    /\ [](/\ \A j \in DOMAIN provider_calls :
              \E i \in ToolUses(response) :
                 response.content[i].id = provider_calls[j].id
          /\ Len(provider_calls) <= Cardinality(ToolUses(response))
          /\ Len(llm_calls) <= 1 + Cardinality(ToolUses(response)))
    /\ <>(pc = "done")

C23_Witness ==
    /\ pc = "done"
    /\ final_response.stop_reason = "tool_use"
    /\ ToolUses(final_response) # {}
    /\ Cardinality(ToolUses(response)) = 1
    /\ Len(provider_calls) = 1
    /\ Len(llm_calls) = 2

\* C24: the provider is called with exactly the parameter values of the
\* dispatched tool-invocation block, each under the parameter of its name.
C24_ArgumentsAreBlockInput ==
    \A j \in DOMAIN provider_calls :
       \E i \in DOMAIN response.content :
          /\ response.content[i].type = "tool_use"
          /\ response.content[i].id = provider_calls[j].id
          /\ provider_calls[j].input = response.content[i].input

C24_Witness ==
    /\ variant = "flight"
    /\ Len(provider_calls) = 1
    /\ provider_calls[1].input =
         [min_lat |-> 42, max_lat |-> 43, min_lon |-> 23, max_lon |-> 24]
    /\ provider_calls[1].outcome.kind = "ok"

\* C25: in the flight variant, once a tool of the first reply has been
\* dispatched, the value returned is never a text of the first reply: it is
\* a text of a second-round reply or no answer.
C25_NoFirstReplyTextAfterDispatch ==
    (variant = "flight" /\ pc = "done" /\ result.kind = "return"
       /\ provider_calls # <<>>)
    => \/ result.value = None
       \/ result.value[1] >= 2

\* C26: every conversation passed to the LLM starts with a user turn and
\* alternates user and assistant turns.
C26_RolesAlternate ==
    \A k \in DOMAIN llm_calls :
       LET msgs == llm_calls[k]
       IN /\ msgs # <<>>
          /\ msgs[1].role = "user"
          /\ \A i \in 1..(Len(msgs) - 1) : msgs[i].role # msgs[i + 1].role

\* C27: after execute_query has raised DatabaseError the held connection is
\* usable, its failed transaction rolled back or the connection replaced, and
\* a valid query does not fail on the transaction an earlier query left
\* behind.
C27_FailedQueryLeavesConnectionUsable ==
    db_hist.last.op = "execute_query"
    => /\ (db_hist.last.outcome.kind = "raise" /\ connection # 0
            /\ ~db_conns[connection].closed)
           => db_conns[connection].tx # "aborted"
       /\ (db_hist.last.query = "SELECT 1" /\ db_hist.last.outcome.kind = "raise")
           => db_hist.last.tx_before # "aborted"

====
